---- MODULE Spec2Model ----
(***************************************************************************)
(* A model of tensorflow_recommenders/examples/movielens.py:               *)
(*   evaluate              (precision@k / recall@k of a retrieval model)   *)
(*   _sample_list          (one list example for a user)                   *)
(*   movielens_to_listwise (pointwise ratings -> listwise examples)        *)
(*                                                                         *)
(* The two entry points share no state.  Each has its frame in one         *)
(* variable, a record whose fields are the arguments and locals of the     *)
(* function under their names in the source, plus pc, its position:        *)
(*   ev  the frame of evaluate              (SpecEval)                     *)
(*   lw  the frame of movielens_to_listwise (SpecList)                     *)
(* The frame of the function that is not running is Idle.                  *)
(*                                                                         *)
(* Item indices are 0-based as in the code; TLA+ sequences are 1-based, so *)
(* the identifier at index i is movie_ids[i + 1].                          *)
(* Floats are exact fractions [nan, num, den]; np.mean of an empty list is *)
(* NaN.  random.sample is the one of the Python versions that accept a set *)
(* as population (before 3.11).                                            *)
(***************************************************************************)
EXTENDS Integers, Sequences, FiniteSets, TLC

\* ------------------------------------------------------------------ bounds
\* length of the movies dataset
MaxCatalog == 2
\* length of evaluate's train dataset
MaxTrain == 1
\* length of evaluate's test dataset
MaxTest == 2
\* length of the rating dataset
MaxRatings == 2
\* num_pos_examples_per_list
MaxPos == 2
\* num_neg_examples_per_list
MaxNeg == 1

Users == {"u1", "u2"}
Items == {"A", "B"}
\* the values of the cutoff k
Cutoffs == {1, 2}
\* the values a dot product of a user embedding and a movie embedding takes
ScoreValues == {0, 1}
\* the ratings a user gives
RatingValues == {3, 5}
\* (train_num_list_per_user, test_num_list_per_user)
ListCounts == {<<0, 0>>, <<1, 0>>, <<0, 1>>, <<1, 1>>, <<2, 0>>, <<0, 2>>}

\* the masking sentinel of line 85 (-1e6)
Sentinel == -1000000

\* ------------------------------------------------------------------ state
VARIABLES ev, lw

vars == <<ev, lw>>

Idle == "idle"

\* ------------------------------------------------------------------ helpers
SeqsUpTo(S, n) == UNION {[1..m -> S] : m \in 0..n}

Range(s) == {s[j] : j \in 1..Len(s)}

EmptyMap == [x \in {} |-> 0]

\* d[key] = value on a dict: insert or overwrite
DictSet(d, key, value) ==
  [x \in (DOMAIN d) \cup {key} |-> IF x = key THEN value ELSE d[x]]

\* defaultdict(lambda: array.array("i")): a missing key reads as the empty array
DefaultGet(d, key) == IF key \in DOMAIN d THEN d[key] ELSE <<>>

\* the keys of a dict in insertion order, after d[key] was read or written
KeysAfter(keys, key) == IF key \in Range(keys) THEN keys ELSE Append(keys, key)

\* dict(zip(ids, range(len(ids)))): pairs are inserted left to right with
\* 0-based positions, a later pair overwriting an earlier one with the same key
RECURSIVE ZipDict(_, _)
ZipDict(ids, n) ==
  IF n = 0 THEN EmptyMap
  ELSE DictSet(ZipDict(ids, n - 1), ids[n], n - 1)

\* a vocabulary numbering the catalog from 1
BuildVocabularyOneBased(ids) ==
  [x \in Range(ids) |-> ZipDict(ids, Len(ids))[x] + 1]

\* line 52
BuildVocabulary(ids) == ZipDict(ids, Len(ids))

\* a lookup that gives an unknown identifier the next free index
LookupOrInsert(vocabulary, movie_id) ==
  IF movie_id \in DOMAIN vocabulary
  THEN [ok |-> TRUE, index |-> vocabulary[movie_id]]
  ELSE [ok |-> TRUE, index |-> Cardinality(DOMAIN vocabulary)]

\* movie_vocabulary[row["movie_id"]] on a plain dict: KeyError for a missing key
Lookup(vocabulary, movie_id) ==
  IF movie_id \in DOMAIN vocabulary
  THEN [ok |-> TRUE, index |-> vocabulary[movie_id]]
  ELSE [ok |-> FALSE, index |-> -1]

Frac(n, d) == [nan |-> FALSE, num |-> n, den |-> d]
NaN == [nan |-> TRUE, num |-> 0, den |-> 1]

\* float addition, exactly
FracAdd(a, b) == Frac(a.num * b.den + b.num * a.den, a.den * b.den)

RECURSIVE FracSum(_, _)
FracSum(values, n) ==
  IF n = 0 THEN Frac(0, 1) ELSE FracAdd(FracSum(values, n - 1), values[n])

\* np.mean(values): sum / len, NaN for the empty list
Mean(values) ==
  IF Len(values) = 0 THEN NaN
  ELSE LET s == FracSum(values, Len(values))
       IN  Frac(s.num, s.den * Len(values))

\* scores[train_movies] = -1e6 on a vector indexed 0..N-1
Mask(vec, train_movies) ==
  [j \in DOMAIN vec |-> IF j \in Range(train_movies) THEN Sentinel ELSE vec[j]]

\* np.argsort(-vec): every ordering of the indices by descending score; the
\* default sort is not stable, so equal scores come in any order
ArgSortDesc(vec) ==
  LET n == Cardinality(DOMAIN vec)
  IN  {p \in [1..n -> DOMAIN vec] :
         /\ \A a, b \in 1..n : a # b => p[a] # p[b]
         /\ \A a, b \in 1..n : a < b => vec[p[a]] >= vec[p[b]]}

\* perm[:n]
Prefix(perm, n) == SubSeq(perm, 1, IF n < Len(perm) THEN n ELSE Len(perm))

\* np.argsort(-vec)[:n]
TopK(vec, n) == {Prefix(order, n) : order \in ArgSortDesc(vec)}

\* a hit count over the distinct test items
NumDistinctTestMoviesInK(top, test_movies) ==
  Cardinality(Range(test_movies) \cap Range(top))

\* sum(x in top_movies for x in test_movies)
RECURSIVE CountIn(_, _, _)
CountIn(top, test_movies, n) ==
  IF n = 0 THEN 0
  ELSE CountIn(top, test_movies, n - 1)
       + (IF test_movies[n] \in Range(top) THEN 1 ELSE 0)

\* line 88
NumTestMoviesInK(top, test_movies) == CountIn(top, test_movies, Len(test_movies))

\* ------------------------------------------------------------------ evaluate
Rows == [user_id : Users, movie_id : Items]

\* train is None, or a dataset
TrainArguments ==
  [present : {TRUE}, rows : SeqsUpTo(Rows, MaxTrain)]
    \cup {[present |-> FALSE, rows |-> <<>>]}

\* the frame on entry; the datasets are whole from the start, read or not.
\* row is the position of the dataset iterator, user_pos the one of the
\* iterator over test_user_to_movies.items(), test_keys the keys of
\* test_user_to_movies in insertion order.
EvalEntry(movies, train, test, k) ==
  [movies |-> movies, train |-> train, test |-> test, k |-> k,
   pc |-> "start",
   row |-> 1,
   movie_ids |-> <<>>,
   movie_vocabulary |-> EmptyMap,
   train_user_to_movies |-> EmptyMap,
   test_user_to_movies |-> EmptyMap,
   test_keys |-> <<>>,
   user_pos |-> 1,
   scores |-> EmptyMap,
   top_movies |-> <<>>,
   num_test_movies_in_k |-> 0,
   precision_values |-> <<>>,
   recall_values |-> <<>>,
   returned |-> FALSE,
   precision_at_k |-> NaN,
   recall_at_k |-> NaN]

EvalInit ==
  /\ \E movies \in SeqsUpTo(Items, MaxCatalog), train \in TrainArguments,
        test \in SeqsUpTo(Rows, MaxTest), k \in Cutoffs :
       ev = EvalEntry(movies, train, test, k)
  /\ lw = Idle

\* lines 49-57: np.concatenate of no batch raises ValueError
Vocabulary ==
  /\ ev.pc = "start"
  /\ IF Len(ev.movies) = 0
     THEN ev' = [ev EXCEPT !.pc = "ValueError"]
     ELSE ev' = [ev EXCEPT !.movie_ids = ev.movies,
                           !.movie_vocabulary = BuildVocabulary(ev.movies),
                           !.pc = IF ev.train.present THEN "train" ELSE "test"]
  /\ UNCHANGED lw

\* lines 58-61, one row of the train loop
IndexTrainRow ==
  /\ ev.pc = "train"
  /\ ev.row <= Len(ev.train.rows)
  /\ LET r == ev.train.rows[ev.row]
         found == Lookup(ev.movie_vocabulary, r.movie_id)
     IN  IF found.ok
         THEN ev' = [ev EXCEPT
                !.train_user_to_movies =
                   DictSet(@, r.user_id,
                           Append(DefaultGet(@, r.user_id), found.index)),
                !.row = @ + 1]
         ELSE ev' = [ev EXCEPT !.pc = "KeyError"]
  /\ UNCHANGED lw

\* the train loop is exhausted
EndTrain ==
  /\ ev.pc = "train"
  /\ ev.row > Len(ev.train.rows)
  /\ ev' = [ev EXCEPT !.pc = "test", !.row = 1]
  /\ UNCHANGED lw

\* lines 63-66, one row of the test loop
IndexTestRow ==
  /\ ev.pc = "test"
  /\ ev.row <= Len(ev.test)
  /\ LET r == ev.test[ev.row]
         found == Lookup(ev.movie_vocabulary, r.movie_id)
     IN  IF found.ok
         THEN ev' = [ev EXCEPT
                !.test_user_to_movies =
                   DictSet(@, r.user_id,
                           Append(DefaultGet(@, r.user_id), found.index)),
                !.test_keys = KeysAfter(@, r.user_id),
                !.row = @ + 1]
         ELSE ev' = [ev EXCEPT !.pc = "KeyError"]
  /\ UNCHANGED lw

\* the test loop is exhausted; lines 68-74
EndTest ==
  /\ ev.pc = "test"
  /\ ev.row > Len(ev.test)
  /\ ev' = [ev EXCEPT !.pc = "users", !.user_pos = 1]
  /\ UNCHANGED lw

\* lines 77-78: the score vectors the models can produce for the catalog; a
\* movie's embedding depends on its identifier only, so a repeated catalog
\* entry scores the same
ScoreVectors(movie_ids) ==
  {[j \in 0..(Len(movie_ids) - 1) |-> model[movie_ids[j + 1]]] :
     model \in [Range(movie_ids) -> ScoreValues]}

\* lines 82-85
MaskedScores(vec, train_present, train_movies) ==
  IF train_present THEN Mask(vec, train_movies) ELSE vec

\* lines 76-90, one iteration of the loop over test_user_to_movies.items();
\* reading train_user_to_movies[user_id] inserts the empty array for a user
\* without train rows
ScoreUser ==
  /\ ev.pc = "users"
  /\ ev.user_pos <= Len(ev.test_keys)
  /\ LET user_id == ev.test_keys[ev.user_pos]
         test_movies == ev.test_user_to_movies[user_id]
         train_movies == DefaultGet(ev.train_user_to_movies, user_id)
     IN  \E masked \in {MaskedScores(raw, ev.train.present, train_movies) :
                          raw \in ScoreVectors(ev.movie_ids)} :
           \E top \in TopK(masked, ev.k) :
             LET hits == NumTestMoviesInK(top, test_movies)
             IN  ev' = [ev EXCEPT
                   !.train_user_to_movies =
                      IF ev.train.present
                      THEN DictSet(@, user_id, train_movies)
                      ELSE @,
                   !.scores = masked,
                   !.top_movies = top,
                   !.num_test_movies_in_k = hits,
                   !.precision_values = Append(@, Frac(hits, ev.k)),
                   !.recall_values = Append(@, Frac(hits, Len(test_movies))),
                   !.user_pos = @ + 1]
  /\ UNCHANGED lw

\* lines 92-95
Return ==
  /\ ev.pc = "users"
  /\ ev.user_pos > Len(ev.test_keys)
  /\ ev' = [ev EXCEPT !.returned = TRUE,
                      !.precision_at_k = Mean(ev.precision_values),
                      !.recall_at_k = Mean(ev.recall_values),
                      !.pc = "done"]
  /\ UNCHANGED lw

EvalNext ==
  \/ Vocabulary
  \/ IndexTrainRow
  \/ EndTrain
  \/ IndexTestRow
  \/ EndTest
  \/ ScoreUser
  \/ Return

SpecEval == EvalInit /\ [][EvalNext]_vars

\* ------------------------------------------------------------------ _sample_list

\* random.sample(population, n): the orderings of n distinct members; none
\* when n exceeds the population (ValueError)
RandomSample(population, n) ==
  {s \in [1..n -> population] : \A a, b \in 1..n : a # b => s[a] # s[b]}

\* lines 98-130: the list examples one call can return; the empty set when a
\* random.sample raises ValueError
SampleList(negative_set, feature_lists, num_pos, num_neg) ==
  LET n == Len(feature_lists.movie_id)
  IN  {[movie_id |->
          [j \in 1..num_pos |-> feature_lists.movie_id[sampled_indices[j] + 1]]
            \o sampled_neg_movie_ids,
        user_rating |->
          [j \in 1..num_pos |-> feature_lists.user_rating[sampled_indices[j] + 1]]
            \o [j \in 1..num_neg |-> 0]] :
         sampled_indices \in RandomSample(0..(n - 1), num_pos),
         sampled_neg_movie_ids \in RandomSample(negative_set, num_neg)}

\* ------------------------------------------------------------------ movielens_to_listwise
Ratings == [user_id : Users, movie_id : Items, user_rating : RatingValues]

EmptySlices == [user_id |-> <<>>, movie_id |-> <<>>, user_rating |-> <<>>]

\* the frame on entry.  rating_dataset holds the examples the dataset has
\* yielded so far; user_idx is the position of the iterator over
\* example_lists_by_user.items(), user_keys the keys of example_lists_by_user
\* in insertion order, lists_made the position of the running range loop.
ListEntry(counts, num_pos, num_neg) ==
  [train_num_list_per_user |-> counts[1],
   test_num_list_per_user |-> counts[2],
   num_pos_examples_per_list |-> num_pos,
   num_neg_examples_per_list |-> num_neg,
   pc |-> "group",
   rating_dataset |-> <<>>,
   example_lists_by_user |-> EmptyMap,
   user_keys |-> <<>>,
   movie_id_vocab |-> {},
   train_tensor_slices |-> EmptySlices,
   test_tensor_slices |-> EmptySlices,
   user_idx |-> 1,
   lists_made |-> 0,
   rated_movie_id_set |-> {},
   negative_movie_id_set |-> {}]

ListInit ==
  /\ \E counts \in ListCounts, num_pos \in 0..MaxPos, num_neg \in 0..MaxNeg :
       lw = ListEntry(counts, num_pos, num_neg)
  /\ ev = Idle

\* defaultdict(lambda: {"movie_id": [], "user_rating": []})
FeatureListsOf(d, user_id) ==
  IF user_id \in DOMAIN d THEN d[user_id]
  ELSE [movie_id |-> <<>>, user_rating |-> <<>>]

\* lines 178-185: the rating dataset yields one more example
GroupExample ==
  /\ lw.pc = "group"
  /\ Len(lw.rating_dataset) < MaxRatings
  /\ \E example \in Ratings :
       LET user_id == example.user_id
           old == FeatureListsOf(lw.example_lists_by_user, user_id)
       IN  lw' = [lw EXCEPT
                    !.rating_dataset = Append(@, example),
                    !.example_lists_by_user =
                      DictSet(@, user_id,
                              [movie_id |-> Append(old.movie_id, example.movie_id),
                               user_rating |-> Append(old.user_rating, example.user_rating)]),
                    !.user_keys = KeysAfter(@, user_id)]
  /\ UNCHANGED ev

\* lines 186-191: the rating dataset is exhausted; the movie dataset is read
BuildMovieIdVocab ==
  /\ lw.pc = "group"
  /\ \E movie_dataset \in SeqsUpTo(Items, MaxCatalog) :
       lw' = [lw EXCEPT !.movie_id_vocab = Range(movie_dataset),
                        !.pc = "user"]
  /\ UNCHANGED ev

\* a negative set that forgets to remove the rated movies
WholeVocabulary(vocab, rated) == vocab

\* line 197
NegativeMovieIdSet(vocab, rated) == vocab \ rated

\* lines 192-197: the next user of example_lists_by_user.items()
StartUser ==
  /\ lw.pc = "user"
  /\ lw.user_idx <= Len(lw.user_keys)
  /\ LET feature_lists == lw.example_lists_by_user[lw.user_keys[lw.user_idx]]
         rated == Range(feature_lists.movie_id)
     IN  lw' = [lw EXCEPT
                  !.rated_movie_id_set = rated,
                  !.negative_movie_id_set = NegativeMovieIdSet(lw.movie_id_vocab, rated),
                  !.lists_made = 0,
                  !.pc = "train_lists"]
  /\ UNCHANGED ev

\* slices that record every list twice
AppendSlicesTwice(slices, user_id, sampled) ==
  [user_id |-> slices.user_id \o <<user_id, user_id>>,
   movie_id |-> slices.movie_id \o <<sampled.movie_id, sampled.movie_id>>,
   user_rating |-> slices.user_rating \o <<sampled.user_rating, sampled.user_rating>>]

\* lines 205-207 and 215-217
AppendSlices(slices, user_id, sampled) ==
  [user_id |-> Append(slices.user_id, user_id),
   movie_id |-> Append(slices.movie_id, sampled.movie_id),
   user_rating |-> Append(slices.user_rating, sampled.user_rating)]

\* the lists one call of _sample_list for the current user can return
Samples ==
  SampleList(lw.negative_movie_id_set,
             lw.example_lists_by_user[lw.user_keys[lw.user_idx]],
             lw.num_pos_examples_per_list,
             lw.num_neg_examples_per_list)

\* lines 198-207, one iteration
SampleTrainList ==
  /\ lw.pc = "train_lists"
  /\ lw.lists_made < lw.train_num_list_per_user
  /\ IF Samples = {}
     THEN lw' = [lw EXCEPT !.pc = "ValueError"]
     ELSE \E sampled \in Samples :
            lw' = [lw EXCEPT
                     !.train_tensor_slices =
                       AppendSlices(@, lw.user_keys[lw.user_idx], sampled),
                     !.lists_made = @ + 1]
  /\ UNCHANGED ev

\* the train loop of the user is exhausted
EndTrainLists ==
  /\ lw.pc = "train_lists"
  /\ lw.lists_made >= lw.train_num_list_per_user
  /\ lw' = [lw EXCEPT !.pc = "test_lists", !.lists_made = 0]
  /\ UNCHANGED ev

\* lines 208-217, one iteration
SampleTestList ==
  /\ lw.pc = "test_lists"
  /\ lw.lists_made < lw.test_num_list_per_user
  /\ IF Samples = {}
     THEN lw' = [lw EXCEPT !.pc = "ValueError"]
     ELSE \E sampled \in Samples :
            lw' = [lw EXCEPT
                     !.test_tensor_slices =
                       AppendSlices(@, lw.user_keys[lw.user_idx], sampled),
                     !.lists_made = @ + 1]
  /\ UNCHANGED ev

\* the test loop of the user is exhausted
EndTestLists ==
  /\ lw.pc = "test_lists"
  /\ lw.lists_made >= lw.test_num_list_per_user
  /\ lw' = [lw EXCEPT !.pc = "user", !.user_idx = @ + 1]
  /\ UNCHANGED ev

\* lines 218-221
ReturnLists ==
  /\ lw.pc = "user"
  /\ lw.user_idx > Len(lw.user_keys)
  /\ lw' = [lw EXCEPT !.pc = "done"]
  /\ UNCHANGED ev

ListNext ==
  \/ GroupExample
  \/ BuildMovieIdVocab
  \/ StartUser
  \/ SampleTrainList
  \/ EndTrainLists
  \/ SampleTestList
  \/ EndTestLists
  \/ ReturnLists

SpecList == ListInit /\ [][ListNext]_vars

\* ------------------------------------------------------------------ claims on evaluate

\* the users of the rows, in order of first occurrence
RECURSIVE FirstOccurrences(_, _)
FirstOccurrences(rows, n) ==
  IF n = 0 THEN <<>>
  ELSE LET before == FirstOccurrences(rows, n - 1)
       IN  IF rows[n].user_id \in Range(before)
           THEN before
           ELSE Append(before, rows[n].user_id)

\* the catalog position (0-based) an identifier decodes from: the last one
LastPosition(x) ==
  CHOOSE i \in 0..(Len(ev.movies) - 1) :
    /\ ev.movies[i + 1] = x
    /\ \A j \in (i + 1)..(Len(ev.movies) - 1) : ev.movies[j + 1] # x

Catalog == Range(ev.movies)

UnknownItem(rows) == \E i \in 1..Len(rows) : rows[i].movie_id \notin Catalog

\* some interaction passed to evaluate is not in the catalog
VocabularyMiss ==
  (ev.train.present /\ UnknownItem(ev.train.rows)) \/ UnknownItem(ev.test)

VocabularyBuilt == ev.pc \notin {"start", "ValueError"}

\* C8: the vocabulary maps every catalog identifier to an index in [0, N),
\* distinct identifiers to distinct indices, and the identifier stored at
\* catalog position vocabulary[x] is x, also for a catalog with duplicates.
C8_VocabularyRoundTrip ==
  VocabularyBuilt =>
    /\ DOMAIN ev.movie_vocabulary = Catalog
    /\ \A x \in Catalog :
         /\ ev.movie_vocabulary[x] \in 0..(Len(ev.movies) - 1)
         /\ ev.movie_ids[ev.movie_vocabulary[x] + 1] = x
    /\ \A x, y \in Catalog :
         x # y => ev.movie_vocabulary[x] # ev.movie_vocabulary[y]

C8_Witness ==
  /\ VocabularyBuilt
  /\ Len(ev.movies) >= 2
  /\ \E a, b \in 1..Len(ev.movies) : a # b /\ ev.movies[a] = ev.movies[b]

\* C7 as stated: an interaction with an identifier outside the catalog makes
\* evaluate end in a key-lookup error, whatever the catalog.
C7_AlwaysKeyError ==
  VocabularyMiss => ev.pc \in {"start", "train", "test", "KeyError"}

\* the number of rows of each dataset that have been indexed
IndexedTrain ==
  IF ev.pc \in {"start", "ValueError"} \/ ~ev.train.present THEN 0
  ELSE IF ev.pc = "train" \/ (ev.pc = "KeyError" /\ UnknownItem(ev.train.rows))
       THEN ev.row - 1
  ELSE Len(ev.train.rows)

IndexedTest ==
  IF ev.pc \in {"start", "ValueError", "train"} THEN 0
  ELSE IF ev.pc = "KeyError" /\ ev.train.present /\ UnknownItem(ev.train.rows) THEN 0
  ELSE IF ev.pc \in {"test", "KeyError"} THEN ev.row - 1
  ELSE Len(ev.test)

\* the indices a per-user array must hold after n rows: every row of the
\* user, in order, under the catalog position of its identifier
RECURSIVE IndexOf(_, _, _)
IndexOf(rows, n, user_id) ==
  IF n = 0 THEN <<>>
  ELSE IF rows[n].user_id = user_id
       THEN Append(IndexOf(rows, n - 1, user_id), LastPosition(rows[n].movie_id))
       ELSE IndexOf(rows, n - 1, user_id)

\* C7 (amended): with a non-empty catalog, an interaction whose identifier is
\* not in the catalog stops evaluate with KeyError at that very row, before any
\* user is scored and with no metrics returned; every row before it was
\* appended under its catalog index, none skipped and none given a new index.
C7_KeyErrorAtLookup ==
  /\ (Len(ev.movies) > 0 /\ VocabularyMiss) =>
       /\ ev.pc \in {"start", "train", "test", "KeyError"}
       /\ ev.precision_values = <<>>
       /\ ev.recall_values = <<>>
       /\ ~ev.returned
  /\ ev.pc = "KeyError" =>
       LET rows == IF ev.train.present /\ UnknownItem(ev.train.rows)
                   THEN ev.train.rows ELSE ev.test
       IN  /\ ev.row \in 1..Len(rows)
           /\ rows[ev.row].movie_id \notin Catalog
  /\ \A i \in 1..IndexedTrain : ev.train.rows[i].movie_id \in Catalog
  /\ \A i \in 1..IndexedTest : ev.test[i].movie_id \in Catalog
  /\ VocabularyBuilt =>
       \A u \in Users :
         /\ DefaultGet(ev.train_user_to_movies, u) = IndexOf(ev.train.rows, IndexedTrain, u)
         /\ DefaultGet(ev.test_user_to_movies, u) = IndexOf(ev.test, IndexedTest, u)

C7_Witness ==
  /\ ev.pc = "KeyError"
  /\ ev.train.present
  /\ Len(ev.train.rows) >= 1
  /\ ~UnknownItem(ev.train.rows)
  /\ ev.row = 2

\* ---- the reference computation of the metrics

TestUsers == {ev.test[i].user_id : i \in 1..Len(ev.test)}

\* the user's test interactions, as positions of the test dataset
TestRowsOf(u) == {i \in 1..Len(ev.test) : ev.test[i].user_id = u}

\* the indices of the user's own train items
TrainIndicesOf(u) ==
  IF ev.train.present
  THEN {LastPosition(ev.train.rows[i].movie_id) :
          i \in {j \in 1..Len(ev.train.rows) : ev.train.rows[j].user_id = u}}
  ELSE {}

Min(a, b) == IF a < b THEN a ELSE b

\* top holds the n highest-scoring indices of vec, best first
IsTopOf(top, vec, n) ==
  /\ Len(top) = Min(n, Cardinality(DOMAIN vec))
  /\ Range(top) \subseteq DOMAIN vec
  /\ \A a, b \in 1..Len(top) : a < b => top[a] # top[b] /\ vec[top[a]] >= vec[top[b]]
  /\ \A j \in (DOMAIN vec) \ Range(top) :
       \A a \in 1..Len(top) : vec[top[a]] >= vec[j]

RECURSIVE SumOver(_, _)
SumOver(S, f) ==
  IF S = {} THEN 0
  ELSE LET x == CHOOSE y \in S : TRUE IN f[x] + SumOver(S \ {x}, f)

RECURSIVE ProductOver(_, _)
ProductOver(S, f) ==
  IF S = {} THEN 1
  ELSE LET x == CHOOSE y \in S : TRUE IN f[x] * ProductOver(S \ {x}, f)

\* the users scored so far, and the hit count appended for each
Scored == {ev.test_keys[i] : i \in 1..Len(ev.precision_values)}
HitsOf ==
  [u \in Scored |->
     ev.precision_values[CHOOSE i \in 1..Len(ev.test_keys) : ev.test_keys[i] = u].num]
TestCount == [u \in TestUsers |-> Cardinality(TestRowsOf(u))]

LastUser == ev.test_keys[ev.user_pos - 1]

\* C9: evaluate scores exactly the users with a test interaction, in their
\* order of first occurrence; the hit count of a user is the number of its
\* test interactions whose index is among the k highest-scoring indices of
\* its score vector with only its own train items masked; precision_at_k is
\* the mean of hits/k and recall_at_k the mean of hits/|test interactions|
\* over those users, each weighted once.
C9_ReferenceMetrics ==
  /\ ev.pc \in {"users", "done"} =>
       /\ ev.test_keys = FirstOccurrences(ev.test, Len(ev.test))
       /\ Len(ev.precision_values) = ev.user_pos - 1
       /\ Len(ev.recall_values) = ev.user_pos - 1
       /\ \A i \in 1..(ev.user_pos - 1) :
            /\ ev.precision_values[i].den = ev.k
            /\ ev.recall_values[i].den = TestCount[ev.test_keys[i]]
            /\ ev.recall_values[i].num = ev.precision_values[i].num
            /\ ~ev.precision_values[i].nan /\ ~ev.recall_values[i].nan
  /\ (ev.pc \in {"users", "done"} /\ ev.user_pos > 1) =>
       /\ DOMAIN ev.scores = 0..(Len(ev.movies) - 1)
       /\ \A j \in DOMAIN ev.scores :
            IF j \in TrainIndicesOf(LastUser)
            THEN ev.scores[j] = Sentinel
            ELSE ev.scores[j] \in ScoreValues
       /\ IsTopOf(ev.top_movies, ev.scores, ev.k)
       /\ ev.num_test_movies_in_k =
            Cardinality({i \in TestRowsOf(LastUser) :
                           LastPosition(ev.test[i].movie_id) \in Range(ev.top_movies)})
       /\ ev.precision_values[ev.user_pos - 1].num = ev.num_test_movies_in_k
  /\ (ev.pc = "done" /\ TestUsers # {}) =>
       LET n == Cardinality(TestUsers)
           p == ev.precision_at_k
           r == ev.recall_at_k
       IN  /\ ev.returned
           /\ Scored = TestUsers
           /\ ~p.nan /\ p.den > 0
           /\ p.num * (ev.k * n) = p.den * SumOver(TestUsers, HitsOf)
           /\ ~r.nan /\ r.den > 0
           /\ r.num * (n * ProductOver(TestUsers, TestCount))
                = r.den * SumOver(TestUsers,
                                  [u \in TestUsers |->
                                     HitsOf[u] * ProductOver(TestUsers \ {u}, TestCount)])

C9_Witness ==
  /\ ev.pc = "done"
  /\ Cardinality(TestUsers) = 2
  /\ ev.train.present
  /\ \E u \in TestUsers : TrainIndicesOf(u) # {}
  /\ \E u \in TestUsers : TrainIndicesOf(u) = {}
  /\ ev.precision_at_k.num > 0
  /\ \E i \in 1..2 : ev.precision_values[i].num = 0

UserScored == ev.pc \in {"users", "done"} /\ ev.user_pos > 1

\* C1: with a train dataset, no index of the user's train items is among the
\* user's top-K.
C1_TrainItemsExcluded ==
  (ev.train.present /\ UserScored) =>
    Range(ev.top_movies) \cap Range(DefaultGet(ev.train_user_to_movies, LastUser)) = {}

\* C2: the hit count of a user is at most min(k, number of its test items),
\* so its precision and recall lie in [0, 1].
C2_HitsBounded ==
  UserScored =>
    /\ ev.num_test_movies_in_k <= Min(ev.k, Len(ev.test_user_to_movies[LastUser]))
    /\ \A i \in 1..Len(ev.precision_values) :
         /\ 0 <= ev.precision_values[i].num
         /\ ev.precision_values[i].num <= ev.precision_values[i].den
         /\ 0 <= ev.recall_values[i].num
         /\ ev.recall_values[i].num <= ev.recall_values[i].den

InUnitInterval(x) == ~x.nan /\ x.den > 0 /\ 0 <= x.num /\ x.num <= x.den

\* C3: whenever evaluate returns, precision_at_k and recall_at_k are finite
\* values in [0, 1], never NaN.
C3_FiniteMetrics ==
  ev.pc = "done" =>
    /\ InUnitInterval(ev.precision_at_k)
    /\ InUnitInterval(ev.recall_at_k)
\* ------------------------------------------------------------------ claims on movielens_to_listwise

\* what the caller receives: the slices once the function has returned
ReturnedTrain == IF lw.pc = "done" THEN lw.train_tensor_slices ELSE EmptySlices
ReturnedTest == IF lw.pc = "done" THEN lw.test_tensor_slices ELSE EmptySlices

Ended == lw.pc \in {"done", "ValueError"}

RatingRowsOf(u) ==
  {r \in 1..Len(lw.rating_dataset) : lw.rating_dataset[r].user_id = u}
RatedBy(u) == {lw.rating_dataset[r].movie_id : r \in RatingRowsOf(u)}
UnratedBy(u) == lw.movie_id_vocab \ RatedBy(u)
RatedUsers == {lw.rating_dataset[r].user_id : r \in 1..Len(lw.rating_dataset)}

ListLength == lw.num_pos_examples_per_list + lw.num_neg_examples_per_list

NoDuplicates(s) == \A a, b \in 1..Len(s) : a # b => s[a] # s[b]

WellShaped(slices) ==
  \A i \in 1..Len(slices.movie_id) :
    /\ Len(slices.movie_id[i]) = ListLength
    /\ Len(slices.user_rating[i]) = ListLength
    /\ NoDuplicates(slices.movie_id[i])

\* C4: every list example has exactly num_pos + num_neg item identifiers, as
\* many ratings, and no item identifier twice.
C4_ListShape ==
  /\ WellShaped(lw.train_tensor_slices)
  /\ WellShaped(lw.test_tensor_slices)

PositivesThenNegatives(slices) ==
  /\ Len(slices.user_id) = Len(slices.movie_id)
  /\ Len(slices.user_id) = Len(slices.user_rating)
  /\ \A i \in 1..Len(slices.movie_id) :
       LET u == slices.user_id[i]
           ids == slices.movie_id[i]
           ratings == slices.user_rating[i]
       IN  /\ Len(ids) = ListLength
           /\ Len(ratings) = ListLength
           /\ \A j \in 1..lw.num_pos_examples_per_list :
                \E r \in RatingRowsOf(u) :
                  /\ lw.rating_dataset[r].movie_id = ids[j]
                  /\ lw.rating_dataset[r].user_rating = ratings[j]
           /\ \A j \in (lw.num_pos_examples_per_list + 1)..ListLength :
                /\ ratings[j] = 0
                /\ ids[j] \in lw.movie_id_vocab
                /\ ids[j] \notin RatedBy(u)

\* C5: in every list example of a user the first num_pos entries are
\* (item, rating) pairs of the user's interactions, rating unchanged, and the
\* last num_neg entries carry rating 0 and are catalog items the user never
\* rated.
C5_PositivesThenNegatives ==
  /\ PositivesThenNegatives(lw.train_tensor_slices)
  /\ PositivesThenNegatives(lw.test_tensor_slices)

C5_Witness ==
  /\ lw.pc = "done"
  /\ lw.num_pos_examples_per_list >= 1
  /\ lw.num_neg_examples_per_list >= 1
  /\ Len(lw.train_tensor_slices.movie_id) >= 1
  /\ Len(lw.test_tensor_slices.movie_id) >= 1
  /\ \E u \in RatedUsers :
       Cardinality(RatingRowsOf(u)) > lw.num_pos_examples_per_list

Sufficient(u) ==
  /\ lw.num_pos_examples_per_list <= Cardinality(RatingRowsOf(u))
  /\ lw.num_neg_examples_per_list <= Cardinality(UnratedBy(u))

CountFor(slices, u) ==
  Cardinality({i \in 1..Len(slices.user_id) : slices.user_id[i] = u})

\* C6: a user whose population is too small for num_pos or num_neg gets no
\* list example, and every other user still gets all of its list examples.
C6_FailurePerUser ==
  Ended =>
    \A u \in RatedUsers :
      IF Sufficient(u)
      THEN /\ CountFor(ReturnedTrain, u) = lw.train_num_list_per_user
           /\ CountFor(ReturnedTest, u) = lw.test_num_list_per_user
      ELSE /\ CountFor(ReturnedTrain, u) = 0
           /\ CountFor(ReturnedTest, u) = 0

RatedUsersInOrder == FirstOccurrences(lw.rating_dataset, Len(lw.rating_dataset))

\* each user of users, in order, n times
RECURSIVE Repeated(_, _, _)
Repeated(users, m, n) ==
  IF m = 0 THEN <<>>
  ELSE Repeated(users, m - 1, n) \o [j \in 1..n |-> users[m]]

\* the (item, rating) pairs of a user, in order of observation
RECURSIVE ObservedBy(_, _)
ObservedBy(u, n) ==
  IF n = 0 THEN [movie_id |-> <<>>, user_rating |-> <<>>]
  ELSE LET before == ObservedBy(u, n - 1)
           e == lw.rating_dataset[n]
       IN  IF e.user_id = u
           THEN [movie_id |-> Append(before.movie_id, e.movie_id),
                 user_rating |-> Append(before.user_rating, e.user_rating)]
           ELSE before

====
